---------------------------- MODULE Spec2Model ----------------------------
(***************************************************************************)
(* Model of the now-screening backend (apps/api/main.go): the /movies      *)
(* handler, the start-up preload, and the PostgreSQL session they share    *)
(* through the single package-level connection `db`.                       *)
(*                                                                         *)
(* Every database statement is one atomic step executed in the one         *)
(* session of that connection.  The session follows PostgreSQL: BEGIN      *)
(* inside a transaction is a warning and changes nothing, COMMIT and       *)
(* ROLLBACK outside a transaction are warnings, a statement outside a      *)
(* transaction is committed on its own, an error inside a transaction      *)
(* aborts it, NOW() and CURRENT_TIMESTAMP are the start time of the        *)
(* current transaction.  A statement may also fail on the client side      *)
(* without reaching the server (pgx reports "conn busy" when the           *)
(* connection is used by two goroutines at once).                          *)
(***************************************************************************)
EXTENDS Integers, Sequences, FiniteSets, TLC

\* ------------------------------------------------------------------ bounds
MaxReqs == 2        \* request goroutines that may be in flight together
MaxExt == 2         \* successful extractions in one behaviour
MaxTick == 2        \* clock instants after the initial one

\* --------------------------------------------------------------- constants
FreshHours == 24    \* INTERVAL '24 hours'

PreloadCities == <<"cuttack", "bhubaneswar">>
DefaultCity == "cuttack"
Cities == {"cuttack", "bhubaneswar"}

Warmup == 0
Reqs == 1..MaxReqs
Procs == {Warmup} \cup Reqs

\* The scrapeMovies calls followed step by step.
MaxCalls == 4

\* The city changes made in the popup and the times the page rebuilds its
\* watch section.
MaxChanges == 2
MaxMutations == 2

\* The longest list of movies handed to the matcher.
MaxEntries == 3

\* ------------------------------------------------------------------- clock
\* The wall clock in hours.  The instants are 0, 23, 24, 47, 48, ... so that
\* two instants can be 1, 23, 24 or more hours apart.
Instant(k) == 24 * (k \div 2) + 23 * (k % 2)

\* ----------------------------------------------------------------- strings
\* A string is a sequence of characters; an HTML entity reference of the raw
\* text is one element ("&nbsp;"), the non-breaking space U+00A0 is "NBSP".
NBSP == "NBSP"

UnescapeChar(ch) == IF ch = "&nbsp;" THEN NBSP ELSE ch

UnescapeString(s) == [i \in DOMAIN s |-> UnescapeChar(s[i])]

ReplaceNbsp(s) == [i \in DOMAIN s |-> IF s[i] = NBSP THEN " " ELSE s[i]]

IsSpace(ch) == ch \in {" ", NBSP}

RECURSIVE TrimLeft(_)
TrimLeft(s) ==
    IF s # <<>> /\ IsSpace(Head(s)) THEN TrimLeft(Tail(s)) ELSE s

RECURSIVE TrimRight(_)
TrimRight(s) ==
    IF s # <<>> /\ IsSpace(s[Len(s)])
    THEN TrimRight(SubSeq(s, 1, Len(s) - 1))
    ELSE s

TrimSpace(s) == TrimRight(TrimLeft(s))

cleanQuery(query) == TrimSpace(ReplaceNbsp(UnescapeString(query)))

\* ------------------------------------------------------------ fuzzy.Find
\* github.com/sahilm/fuzzy as fuzzySearchMovies calls it: a title matches
\* when the characters of the pattern occur in it in order, compared
\* without case; the score rewards a match at the first character, after a
\* separator, at a camel-case boundary and next to the previous match.
firstCharMatchBonus == 10
matchFollowingSeparatorBonus == 20
camelCaseMatchBonus == 20
adjacentMatchBonus == 5
unmatchedLeadingCharPenalty == -5
maxUnmatchedLeadingCharPenalty == -15

NoRune == "NUL"     \* the zero rune: before the first and past the last one

IsLower(ch) == ch \in {"a", "b"}
IsUpper(ch) == ch \in {"A", "B"}
isSeparator(ch) == ch \in {"/", "-", "_", " ", ".", "\\"}

ToLower(ch) == CASE ch = "A" -> "a" [] ch = "B" -> "b" [] OTHER -> ch

equalFold(tr, sr) == ToLower(tr) = ToLower(sr)

Max2(a, b) == IF a >= b THEN a ELSE b

adjacentCharBonus(i, lastMatch, currentBonus) ==
    IF lastMatch = i THEN currentBonus * 2 + adjacentMatchBonus ELSE 0

\* One round of the loop over the candidate string, at 0-based offset j.
ScanStep(str, runes, j, st) ==
    LET candidate == str[j + 1]
        hit == equalFold(candidate, runes[st.patternIndex + 1])
        bonus == IF Len(st.matched) > 0
                 THEN adjacentCharBonus(st.lastIndex, st.matched[Len(st.matched)],
                                        st.currAdjacentMatchBonus)
                 ELSE 0
        score == (IF j = 0 THEN firstCharMatchBonus ELSE 0)
                 + (IF IsLower(st.last) /\ IsUpper(candidate)
                    THEN camelCaseMatchBonus ELSE 0)
                 + (IF j # 0 /\ isSeparator(st.last)
                    THEN matchFollowingSeparatorBonus ELSE 0)
                 + bonus
        currAdj == IF hit THEN st.currAdjacentMatchBonus + bonus
                   ELSE st.currAdjacentMatchBonus
        better == hit /\ score > st.bestScore
        bestScore == IF better THEN score ELSE st.bestScore
        matchedIndex == IF better THEN j ELSE st.matchedIndex
        nextp == IF st.patternIndex < Len(runes) - 1
                 THEN runes[st.patternIndex + 2] ELSE NoRune
        nextc == IF j + 1 < Len(str) THEN str[j + 2] ELSE NoRune
        apply == (equalFold(nextp, nextc) \/ nextc = NoRune) /\ matchedIndex > -1
        penalty == IF Len(st.matched) = 0
                   THEN Max2(matchedIndex * unmatchedLeadingCharPenalty,
                             maxUnmatchedLeadingCharPenalty)
                   ELSE 0
    IN  [score |-> IF apply THEN st.score + bestScore + penalty ELSE st.score,
         matched |-> IF apply THEN Append(st.matched, matchedIndex) ELSE st.matched,
         patternIndex |-> IF apply THEN st.patternIndex + 1 ELSE st.patternIndex,
         bestScore |-> IF apply THEN -1 ELSE bestScore,
         matchedIndex |-> matchedIndex,
         currAdjacentMatchBonus |-> currAdj,
         last |-> candidate,
         lastIndex |-> j]

RECURSIVE Scan(_, _, _, _)
Scan(str, runes, j, st) ==
    IF j >= Len(str) THEN st ELSE Scan(str, runes, j + 1, ScanStep(str, runes, j, st))

ScanInit ==
    [score |-> 0, matched |-> <<>>, patternIndex |-> 0, bestScore |-> -1,
     matchedIndex |-> -1, currAdjacentMatchBonus |-> 0, last |-> NoRune,
     lastIndex |-> 0]

\* The match of one candidate: whether every pattern character was placed,
\* and the score with the penalty for the unmatched characters.
MatchOf(str, runes) ==
    LET st == Scan(str, runes, 0, ScanInit)
    IN  [found |-> Len(st.matched) = Len(runes),
         score |-> st.score + (Len(st.matched) - Len(str))]

\* Matches.Less: a[i].Score >= a[j].Score.
Less(a, b) == a.score >= b.score

\* sort.Stable on fewer than 20 elements is one insertion sort driven by
\* Less(j, j-1).
RECURSIVE InsertBack(_, _)
InsertBack(sorted, m) ==
    IF sorted # <<>> /\ Less(m, sorted[Len(sorted)])
    THEN Append(InsertBack(SubSeq(sorted, 1, Len(sorted) - 1), m),
                sorted[Len(sorted)])
    ELSE Append(sorted, m)

RECURSIVE insertionSort(_, _)
insertionSort(sorted, rest) ==
    IF rest = <<>> THEN sorted
    ELSE insertionSort(InsertBack(sorted, Head(rest)), Tail(rest))

RECURSIVE FindFromNoSort(_, _, _)
FindFromNoSort(pattern, titles, i) ==
    IF i > Len(titles) THEN <<>>
    ELSE LET m == MatchOf(titles[i], pattern)
             rest == FindFromNoSort(pattern, titles, i + 1)
         IN  IF m.found THEN <<[index |-> i, score |-> m.score]>> \o rest
             ELSE rest

Find(pattern, titles) ==
    IF Len(pattern) = 0 THEN <<>>
    ELSE insertionSort(<<>>, FindFromNoSort(pattern, titles, 1))

\* A search that matches nothing returns all the movies.
fuzzySearchOrAll(movies, query) ==
    LET titles == [i \in DOMAIN movies |-> movies[i].title]
        matches == Find(query, titles)
    IN  IF matches = <<>> THEN movies
        ELSE [k \in DOMAIN matches |-> movies[matches[k].index]]

fuzzySearchMovies(movies, query) ==
    IF Len(movies) = 0 THEN movies
    ELSE LET titles == [i \in DOMAIN movies |-> movies[i].title]
             matches == Find(query, titles)
         IN  [k \in DOMAIN matches |-> movies[matches[k].index]]

\* ------------------------------------------------------------ the data
\* Movie{Title, Href}.
Movie(title, href) == [title |-> title, href |-> href]

\* The anchors a listings page of a city can show: two listings, the
\* second with a non-breaking space in its text, and an anchor whose href is
\* empty.
Anchor(c, n) ==
    CASE n = 1 -> [text |-> <<"A", "b">>, href |-> <<c, 1>>]
      [] n = 2 -> [text |-> <<"a", NBSP, "B">>, href |-> <<c, 2>>]
      [] OTHER -> [text |-> <<"b">>, href |-> <<>>]

\* The `links` the page evaluation can fill in for a city: no anchor, one
\* listing, both listings, one listing twice, a listing and the anchor
\* without href.
PageResults(c) ==
    {<<>>,
     <<Anchor(c, 1)>>,
     <<Anchor(c, 2)>>,
     <<Anchor(c, 1), Anchor(c, 2)>>,
     <<Anchor(c, 1), Anchor(c, 1)>>,
     <<Anchor(c, 0), Anchor(c, 2)>>}

\* The text of an anchor is taken for the title as it is.
RECURSIVE linksToMoviesRaw(_)
linksToMoviesRaw(links) ==
    IF links = <<>> THEN <<>>
    ELSE LET link == Head(links)
             rest == linksToMoviesRaw(Tail(links))
         IN  IF link.href # <<>>
             THEN <<Movie(link.text, link.href)>> \o rest
             ELSE rest

\* The conversion loop at the end of scrapeMovies.
RECURSIVE linksToMovies(_)
linksToMovies(links) ==
    IF links = <<>> THEN <<>>
    ELSE LET link == Head(links)
             rest == linksToMovies(Tail(links))
         IN  IF link.href # <<>>
             THEN <<Movie(cleanQuery(link.text), link.href)>> \o rest
             ELSE rest

\* The query parameter of a request; <<>> is the absent or empty one, the
\* other is "a&nbsp;B" as it arrives after URL decoding.
Queries == {<<>>, <<"a", "&nbsp;", "B">>}

NoParam == "(none)"

\* c.DefaultQuery("city", "cuttack").
DefaultQuery(param) == IF param = NoParam THEN DefaultCity ELSE param

\* -------------------------------------------------- the database session
\* A row of the movies table.  ext and of are not columns: they name the
\* extraction the row comes from and the number of entries it had.
Row(c, m, at, e) ==
    [city |-> c, title |-> m.title, href |-> m.href, scraped_at |-> at,
     ext |-> e.id, of |-> e.of]

CityRows(rows, c) == {r \in rows : r.city = c}

IdleConn == [open |-> TRUE, tx |-> "I", txStart |-> 0, pending |-> {}]
ClosedConn == [open |-> FALSE, tx |-> "I", txStart |-> 0, pending |-> {}]

Failed(d, st) == [ok |-> FALSE, db |-> d, stored |-> st]

\* BEGIN.  Inside a transaction it is a warning and starts nothing.
pgBegin(d, st, now) ==
    IF ~d.open \/ d.tx = "E" THEN Failed(d, st)
    ELSE IF d.tx = "T" THEN [ok |-> TRUE, db |-> d, stored |-> st]
    ELSE [ok |-> TRUE,
          db |-> [d EXCEPT !.tx = "T", !.txStart = now, !.pending = st],
          stored |-> st]

\* DELETE FROM movies WHERE city = $1.
pgDelete(d, st, c) ==
    IF ~d.open \/ d.tx = "E" THEN Failed(d, st)
    ELSE IF d.tx = "T"
    THEN [ok |-> TRUE,
          db |-> [d EXCEPT !.pending = d.pending \ CityRows(d.pending, c)],
          stored |-> st]
    ELSE [ok |-> TRUE, db |-> d, stored |-> st \ CityRows(st, c)]

\* INSERT INTO movies (city, title, href): scraped_at takes its default,
\* UNIQUE(city, href) is enforced, an error inside a transaction aborts it.
pgInsert(d, st, now, c, m, e) ==
    IF ~d.open \/ d.tx = "E" THEN Failed(d, st)
    ELSE IF d.tx = "T"
    THEN IF \E r \in d.pending : r.city = c /\ r.href = m.href
         THEN Failed([d EXCEPT !.tx = "E", !.txStart = 0, !.pending = {}], st)
         ELSE [ok |-> TRUE,
               db |-> [d EXCEPT !.pending = d.pending \cup {Row(c, m, d.txStart, e)}],
               stored |-> st]
    ELSE IF \E r \in st : r.city = c /\ r.href = m.href
         THEN Failed(d, st)
         ELSE [ok |-> TRUE, db |-> d, stored |-> st \cup {Row(c, m, now, e)}]

\* COMMIT.  Outside a transaction it is a warning; in an aborted
\* transaction it rolls back and pgx returns ErrTxCommitRollback.
pgCommit(d, st) ==
    IF ~d.open THEN Failed(d, st)
    ELSE IF d.tx = "T" THEN [ok |-> TRUE, db |-> IdleConn, stored |-> d.pending]
    ELSE IF d.tx = "E" THEN Failed(IdleConn, st)
    ELSE [ok |-> TRUE, db |-> d, stored |-> st]

\* ROLLBACK.
pgRollback(d, st) ==
    IF ~d.open THEN Failed(d, st)
    ELSE [ok |-> TRUE, db |-> IdleConn, stored |-> st]

\* NOW() and CURRENT_TIMESTAMP: the start of the current transaction, or
\* the time of the statement outside a transaction.
SessionNow(d, now) == IF d.tx = "T" THEN d.txStart ELSE now

\* The comparison of the WHERE clause turned around.
SelectInverted(rows, c, now) ==
    {r \in rows : r.city = c /\ r.scraped_at < now - FreshHours}

\* The rows the SELECT of getMoviesFromDB qualifies.
SelectStrict(rows, c, now) ==
    {r \in rows : r.city = c /\ r.scraped_at > now - FreshHours}

\* The statement sees the session's view and the session's NOW().
pgSelect(d, st, now, c) ==
    IF ~d.open \/ d.tx = "E" THEN [ok |-> FALSE, rows |-> {}]
    ELSE IF d.tx = "T"
    THEN [ok |-> TRUE, rows |-> SelectStrict(d.pending, c, d.txStart)]
    ELSE [ok |-> TRUE, rows |-> SelectStrict(st, c, now)]

\* ORDER BY scraped_at DESC: every order of the rows in which scraped_at
\* never increases (rows of equal scraped_at come in any order).
Orderings(rows) ==
    {s \in [1..Cardinality(rows) -> rows] :
        /\ \A i, j \in DOMAIN s : i # j => s[i] # s[j]
        /\ \A i, j \in DOMAIN s : i < j => s[i].scraped_at >= s[j].scraped_at}

RowsToMovies(s) == [i \in DOMAIN s |-> Movie(s[i].title, s[i].href)]

\* ------------------------------------------------------------- the state
VARIABLES
    tick,       \* the wall clock is Instant(tick)
    stored,     \* the committed rows of the movies table
    db,         \* the connection `db` and its session: open, transaction
                \* status (I idle, T in transaction, E aborted), start time
                \* and uncommitted rows of the transaction
    proc,       \* per goroutine: where it is and its local variables
    out,        \* the response written by the step that led here, if any
    nextExt,    \* the number the next successful extraction gets
    par,        \* how many requests the clients have in flight at most
    chrome,     \* the browser sessions of the scrapeMovies calls that are
                \* followed step by step: the calls begun, the sessions
                \* launched so far and those alive
    tab,        \* the extension: the city in chrome.storage.sync, the
                \* watch section of a Letterboxd film tab, the content
                \* script's observer and what it has pending
    last        \* with one request at a time: the previous response

vars == <<tick, stored, db, proc, out, nextExt, par, chrome, tab, last>>

\* No tab is open.
NoTab == [open |-> FALSE]

\* No call begun, no browser launched.
NoChrome == [calls |-> 0, launched |-> 0, live |-> {}]

Now == Instant(tick)

NoOut == [status |-> 0]

InFlight == {q \in Reqs : proc[q].pc # "idle"}

\* The locals of a goroutine entering the pipeline for city c.  ext, before,
\* overlap and made record what happened: the extraction `movies` came from,
\* the rows of the city committed when saveMoviesToDB was called, whether
\* another replace of the same city ran during it, and (with one request at
\* a time) the time the request was made.
Locals(c, at) ==
    [pc |-> at, city |-> c, movies |-> <<>>, err |-> FALSE, i |-> 0,
     ext |-> 0, before |-> {}, overlap |-> FALSE, made |-> 0]

\* The extraction the movies of goroutine p come from.
Extraction(p) == [id |-> proc[p].ext, of |-> Len(proc[p].movies)]

\* A request slot with no request in it.
Idle == Locals(DefaultCity, "idle")

SavePcs == {"begin", "delete", "insert", "commit", "rollback"}

InSave(q) == proc[q].pc \in SavePcs

Serving == proc[Warmup].pc = "done"

Boot ==
    /\ tick = 0
    /\ stored = {}
    /\ db = IdleConn
    /\ nextExt = 1
    /\ out = NoOut
    /\ last = NoOut
    /\ chrome = NoChrome
    /\ tab = NoTab
    /\ proc = [p \in Procs |->
                 IF p = Warmup THEN Locals(PreloadCities[1], "read") ELSE Idle]

\* The server under concurrent requests.
Init == Boot /\ par = MaxReqs

\* The server under requests that arrive one after the other.
InitSeq == Boot /\ par = 1

\* Time passes.
Tick ==
    /\ tick < MaxTick
    /\ tick' = tick + 1
    /\ out' = NoOut
    /\ UNCHANGED <<stored, db, proc, nextExt, par, chrome, tab, last>>

\* The server accepts requests while preloadMovies is still at work.
StartEarly(p, param) ==
    /\ p \in Reqs
    /\ proc[p].pc = "idle"
    /\ Cardinality(InFlight) < par
    /\ proc' = [proc EXCEPT ![p] =
                   [Locals(DefaultQuery(param), "read") EXCEPT
                       !.made = IF par = 1 THEN Now ELSE 0]]
    /\ out' = NoOut
    /\ UNCHANGED <<tick, stored, db, nextExt, par, chrome, tab, last>>

\* gin hands a GET /movies to getMovies in a goroutine of its own, once
\* main has reached r.Run.
Start(p, param) ==
    /\ p \in Reqs
    /\ Serving
    /\ proc[p].pc = "idle"
    /\ Cardinality(InFlight) < par
    /\ proc' = [proc EXCEPT ![p] =
                   [Locals(DefaultQuery(param), "read") EXCEPT
                       !.made = IF par = 1 THEN Now ELSE 0]]
    /\ out' = NoOut
    /\ UNCHANGED <<tick, stored, db, nextExt, par, chrome, tab, last>>

CityIndex(c) == CHOOSE k \in DOMAIN PreloadCities : PreloadCities[k] = c

\* The loop is left at the first `continue`.
NextCityBreak(l) == Locals(l.city, "done")

\* preloadMovies: `continue`, or the end of the loop body: the next city, or
\* the end of the loop, after which main starts the server.
NextCity(l) ==
    IF CityIndex(l.city) < Len(PreloadCities)
    THEN Locals(PreloadCities[CityIndex(l.city) + 1], "read")
    ELSE Locals(l.city, "done")

\* encoding/json of the movies handed to c.JSON: a nil slice is written as
\* null, any other as an array.  A slice of length 0 is always nil here:
\* `var movies []Movie` (line 182) and `var result []Movie` (line 249) are
\* only appended to, and fuzzySearchMovies returns a nil argument as it is.
MarshalMovies(movies) ==
    IF Len(movies) = 0 THEN [null |-> TRUE, array |-> <<>>]
    ELSE [null |-> FALSE, array |-> movies]

\* The matcher is called whether there is a query or not.
ReplyAlwaysSearches(c, movies, query, via, err, at, made) ==
    LET shown == fuzzySearchMovies(movies, cleanQuery(query))
    IN  [status |-> 200, city |-> c, movies |-> shown, count |-> Len(shown),
         body |-> MarshalMovies(shown),
         query |-> query, snapshot |-> movies, via |-> via, err |-> err,
         at |-> at, made |-> made, after |-> last]

\* The count is taken before the query is applied.
ReplyCountsAll(c, movies, query, via, err, at, made) ==
    LET shown == IF query # <<>>
                 THEN fuzzySearchMovies(movies, cleanQuery(query))
                 ELSE movies
    IN  [status |-> 200, city |-> c, movies |-> shown, count |-> Len(movies),
         body |-> MarshalMovies(shown),
         query |-> query, snapshot |-> movies, via |-> via, err |-> err,
         at |-> at, made |-> made, after |-> last]

\* getMovies, lines 226-234: the query, if any, is applied and the 200
\* response is written; body is the "movies" of the JSON body, movies the
\* list it encodes.  The fields after body are not part of the response:
\* the query of the request, the list before the query was applied, where
\* it came from ("cache", "saved": extracted and persisted, "unsaved":
\* extracted and the persist failed), the value of err, the scraped_at of
\* the list (of its oldest row when it was read, of the rows written when
\* it was extracted), the time the request was made and the response before
\* this one.
Reply(c, movies, query, via, err, at, made) ==
    LET shown == IF query # <<>>
                 THEN fuzzySearchMovies(movies, cleanQuery(query))
                 ELSE movies
    IN  [status |-> 200, city |-> c, movies |-> shown, count |-> Len(shown),
         body |-> MarshalMovies(shown),
         query |-> query, snapshot |-> movies, via |-> via, err |-> err,
         at |-> at, made |-> made, after |-> last]

\* A failed extraction answered as if no movie were showing.
ReplyEmpty(c) ==
    [status |-> 200, city |-> c, movies |-> <<>>, count |-> 0,
     body |-> MarshalMovies(<<>>), query |-> <<>>,
     snapshot |-> <<>>, via |-> "unsaved", err |-> TRUE, at |-> 0, made |-> 0,
     after |-> last]

\* getMovies, lines 211-214.  city records the city of the request, after
\* the response before this one.
ReplyError(c) ==
    [status |-> 500, error |-> "Failed to scrape movies", city |-> c,
     after |-> last]

\* What is remembered of a response when requests come one at a time.
Remember(resp) == IF par = 1 THEN [resp EXCEPT !.after = NoOut] ELSE last

\* The goroutine p is through with its city: a request writes its response
\* and its goroutine ends, the preload loop goes on.  The query parameter is
\* fixed by the request and read only here.
Return(p, movies, via, err, at) ==
    IF p = Warmup
    THEN /\ proc' = [proc EXCEPT ![p] = NextCity(proc[p])]
         /\ out' = NoOut
         /\ last' = last
    ELSE /\ proc' = [proc EXCEPT ![p] = Idle]
         /\ \E query \in Queries :
               /\ out' = Reply(proc[p].city, movies, query, via, err, at,
                               proc[p].made)
               /\ last' = Remember(out')

\* The scraped_at of the last, and so the oldest, of the rows read.
Oldest(s) == IF s = <<>> THEN 0 ELSE s[Len(s)].scraped_at

\* What getMoviesFromDB can return: an error before any row, the
\* qualifying rows in one of their orders, or the rows read so far with
\* rows.Err() when the connection breaks during the iteration.
getMoviesFromDB(d, st, now, c) ==
    LET sel == pgSelect(d, st, now, c)
    IN  {[movies |-> <<>>, err |-> TRUE, db |-> d, at |-> 0]}
        \cup (IF sel.ok
              THEN {[movies |-> RowsToMovies(s), err |-> FALSE, db |-> d,
                     at |-> Oldest(s)] :
                        s \in Orderings(sel.rows)}
                   \cup {[movies |-> RowsToMovies(SubSeq(s, 1, k)), err |-> TRUE,
                          db |-> ClosedConn, at |-> Oldest(SubSeq(s, 1, k))] :
                            s \in Orderings(sel.rows),
                            k \in 0..(Cardinality(sel.rows) - 1)}
              ELSE {})

\* The lookup's result is never taken for a cache hit.
fromCacheNever(movies) == FALSE

\* fromCache := len(movies) > 0.
fromCache(movies) == Len(movies) > 0

\* getMovies / preloadMovies: the cache lookup.  With cached movies the
\* request answers from them and the preload loop skips the city; without,
\* both go on to scrape.
CheckCache(p) ==
    /\ proc[p].pc = "read"
    /\ \E r \in getMoviesFromDB(db, stored, Now, proc[p].city) :
          /\ db' = r.db
          /\ IF fromCache(r.movies)
             THEN Return(p, r.movies, "cache", r.err, r.at)
             ELSE /\ proc' = [proc EXCEPT ![p] =
                        [@ EXCEPT !.movies = r.movies, !.err = r.err,
                                  !.pc = "scrape"]]
                  /\ out' = NoOut
                  /\ last' = last
    /\ UNCHANGED <<tick, stored, nextExt, par, chrome, tab>>

\* The error of scrapeMovies is logged and the goroutine goes on to save
\* the nil list it got.
ScrapeFailSaves(p) ==
    /\ proc[p].pc = "scrape"
    /\ proc' = [proc EXCEPT ![p] = [@ EXCEPT !.movies = <<>>, !.pc = "begin"]]
    /\ out' = NoOut
    /\ UNCHANGED <<tick, stored, db, nextExt, par, chrome, tab, last>>

\* scrapeMovies fails (navigation, evaluation or the 60 s timeout): the
\* request answers 500 and returns, the preload loop continues.
ScrapeFail(p) ==
    /\ proc[p].pc = "scrape"
    /\ IF p = Warmup
       THEN /\ proc' = [proc EXCEPT ![p] = NextCity(proc[p])]
            /\ out' = NoOut
            /\ last' = last
       ELSE /\ proc' = [proc EXCEPT ![p] = Idle]
            /\ out' = ReplyError(proc[p].city)
            /\ last' = Remember(out')
    /\ UNCHANGED <<tick, stored, db, nextExt, par, chrome, tab>>

\* scrapeMovies returns the cleaned listings; saveMoviesToDB is called next.
ScrapeOk(p) ==
    /\ proc[p].pc = "scrape"
    /\ nextExt <= MaxExt
    /\ \E links \in PageResults(proc[p].city) :
          proc' = [q \in Procs |->
              IF q = p
              THEN [proc[p] EXCEPT !.movies = linksToMovies(links),
                                   !.err = FALSE,
                                   !.ext = nextExt,
                                   !.before = CityRows(stored, proc[p].city),
                                   !.overlap = \E o \in Procs \ {p} :
                                       InSave(o) /\ proc[o].city = proc[p].city,
                                   !.pc = "begin"]
              ELSE IF InSave(q) /\ proc[q].city = proc[p].city
              THEN [proc[q] EXCEPT !.overlap = TRUE]
              ELSE proc[q]]
    /\ nextExt' = nextExt + 1
    /\ out' = NoOut
    /\ UNCHANGED <<tick, stored, db, par, chrome, tab, last>>

\* A statement either reaches the server or fails in the client.
Sent(sent, r) == IF sent THEN r ELSE Failed(db, stored)

\* saveMoviesToDB: db.Begin.  pgx closes the connection when BEGIN fails;
\* the function returns the error before the rollback is deferred.
Begin(p) ==
    /\ proc[p].pc = "begin"
    /\ \E sent \in BOOLEAN :
          LET r == Sent(sent, pgBegin(db, stored, Now))
          IN  IF r.ok
              THEN /\ db' = r.db
                   /\ proc' = [proc EXCEPT ![p] = [@ EXCEPT !.pc = "delete"]]
                   /\ out' = NoOut
                   /\ last' = last
              ELSE /\ db' = ClosedConn
                   /\ Return(p, proc[p].movies, "unsaved", FALSE, Now)
    /\ UNCHANGED <<tick, stored, nextExt, par, chrome, tab>>

\* saveMoviesToDB: the DELETE of the city's rows.
Delete(p) ==
    /\ proc[p].pc = "delete"
    /\ \E sent \in BOOLEAN :
          LET r == Sent(sent, pgDelete(db, stored, proc[p].city))
          IN  /\ db' = r.db
              /\ stored' = r.stored
              /\ proc' = [proc EXCEPT ![p] =
                    [@ EXCEPT !.i = IF r.ok /\ Len(proc[p].movies) > 0
                                    THEN 1 ELSE 0,
                              !.pc = IF ~r.ok THEN "rollback"
                                     ELSE IF Len(proc[p].movies) = 0 THEN "commit"
                                     ELSE "insert"]]
    /\ out' = NoOut
    /\ UNCHANGED <<tick, nextExt, par, chrome, tab, last>>

\* saveMoviesToDB: one round of the INSERT loop.
Insert(p) ==
    /\ proc[p].pc = "insert"
    /\ \E sent \in BOOLEAN :
          LET r == Sent(sent, pgInsert(db, stored, Now, proc[p].city,
                                       proc[p].movies[proc[p].i], Extraction(p)))
              final == proc[p].i = Len(proc[p].movies)
          IN  /\ db' = r.db
              /\ stored' = r.stored
              /\ proc' = [proc EXCEPT ![p] =
                    [@ EXCEPT !.i = IF r.ok /\ ~final THEN @ + 1 ELSE 0,
                              !.pc = IF ~r.ok THEN "rollback"
                                     ELSE IF final THEN "commit"
                                     ELSE "insert"]]
    /\ out' = NoOut
    /\ UNCHANGED <<tick, nextExt, par, chrome, tab, last>>

\* saveMoviesToDB: tx.Commit and the return.  The deferred tx.Rollback then
\* finds the transaction closed and sends nothing.  When COMMIT fails with
\* the session still in a transaction, pgx closes the connection.
Commit(p) ==
    /\ proc[p].pc = "commit"
    /\ \E sent \in BOOLEAN :
          LET r == Sent(sent, pgCommit(db, stored))
          IN  /\ db' = IF ~r.ok /\ r.db.open /\ r.db.tx # "I" THEN ClosedConn
                       ELSE r.db
              /\ stored' = r.stored
              /\ Return(p, proc[p].movies, IF r.ok THEN "saved" ELSE "unsaved",
                        FALSE, SessionNow(db, Now))
    /\ UNCHANGED <<tick, nextExt, par, chrome, tab>>

\* The error of saveMoviesToDB fails the request.
RollbackThenError(p) ==
    /\ proc[p].pc = "rollback"
    /\ \E sent \in BOOLEAN :
          LET r == Sent(sent, pgRollback(db, stored))
          IN  /\ db' = IF r.ok THEN r.db ELSE ClosedConn
              /\ IF p = Warmup
                 THEN /\ proc' = [proc EXCEPT ![p] = NextCity(proc[p])]
                      /\ out' = NoOut
                      /\ last' = last
                 ELSE /\ proc' = [proc EXCEPT ![p] = Idle]
                      /\ out' = ReplyError(proc[p].city)
                      /\ last' = Remember(out')
    /\ UNCHANGED <<tick, stored, nextExt, par, chrome, tab>>

\* saveMoviesToDB: the deferred tx.Rollback after a failed DELETE or INSERT,
\* and the return of the error.  pgx closes the connection when ROLLBACK
\* fails.
Rollback(p) ==
    /\ proc[p].pc = "rollback"
    /\ \E sent \in BOOLEAN :
          LET r == Sent(sent, pgRollback(db, stored))
          IN  /\ db' = IF r.ok THEN r.db ELSE ClosedConn
              /\ Return(p, proc[p].movies, "unsaved", FALSE, Now)
    /\ UNCHANGED <<tick, stored, nextExt, par, chrome, tab>>

Next ==
    \/ Tick
    \/ \E p \in Reqs, param \in Cities \cup {NoParam} : Start(p, param)
    \/ \E p \in Procs : CheckCache(p)
    \/ \E p \in Procs : ScrapeFail(p)
    \/ \E p \in Procs : ScrapeOk(p)
    \/ \E p \in Procs : Begin(p)
    \/ \E p \in Procs : Delete(p)
    \/ \E p \in Procs : Insert(p)
    \/ \E p \in Procs : Commit(p)
    \/ \E p \in Procs : Rollback(p)

Spec == Init /\ [][Next]_vars

\* The rows an earlier run of the server left for city c at time `at`.
LeftBy(c, at) ==
    LET movies == linksToMovies(<<Anchor(c, 1), Anchor(c, 2)>>)
    IN  {Row(c, movies[k], at, [id |-> 0, of |-> Len(movies)]) :
            k \in DOMAIN movies}

\* The table as main can find it: empty, or with rows written at the time
\* of the start or 24 hours before it.
InitialStores ==
    {{},
     LeftBy("cuttack", 0),
     LeftBy("cuttack", 0 - FreshHours),
     LeftBy("bhubaneswar", 0),
     LeftBy("cuttack", 0 - FreshHours) \cup LeftBy("bhubaneswar", 0),
     LeftBy("cuttack", 0) \cup LeftBy("bhubaneswar", 0)}

\* main up to r.Run: only preloadMovies runs, on whatever the table holds.
InitWarm ==
    /\ tick = 0
    /\ stored \in InitialStores
    /\ db = IdleConn
    /\ nextExt = 1
    /\ out = NoOut
    /\ last = NoOut
    /\ chrome = NoChrome
    /\ tab = NoTab
    /\ par = 0
    /\ proc = [p \in Procs |->
                 IF p = Warmup THEN Locals(PreloadCities[1], "read") ELSE Idle]

\* The steps of preloadMovies.
WarmStep ==
    \/ CheckCache(Warmup)
    \/ ScrapeFail(Warmup)
    \/ ScrapeOk(Warmup)
    \/ Begin(Warmup)
    \/ Delete(Warmup)
    \/ Insert(Warmup)
    \/ Commit(Warmup)
    \/ Rollback(Warmup)

WarmNext == Tick \/ WarmStep

\* Every call preloadMovies makes returns: the extraction is bounded by its
\* 60 s timeout, the statements by the answer or the loss of the connection.
SpecWarm == InitWarm /\ [][WarmNext]_vars /\ WF_vars(WarmStep)

SpecSeq == InitSeq /\ [][Next]_vars

\* ------------------------------------------------------------ the matcher
\* getMovies, lines 226-228, on its own: a request that has its movies, read
\* or extracted, and a query parameter that is not empty.  The titles are
\* as cleanQuery leaves them; two of them differ in case only.
MatchTitles ==
    {<<"a", "b">>, <<"A", "b">>, <<"b", "a">>, <<"a", " ", "B">>}

\* Query parameters: one that is a space only, plain ones, one with an
\* entity and one with a space to trim.
MatchQueries ==
    {<<" ">>, <<"a", "b">>, <<"B">>, <<"a", "&nbsp;", "B">>, <<"b", "a">>,
     <<" ", "a">>}

\* The lists of at most MaxEntries movies, each with an href of its own.
Snapshots ==
    UNION {[1..n -> MatchTitles] : n \in 0..MaxEntries}

Entries(titles) ==
    [k \in DOMAIN titles |-> Movie(titles[k], <<DefaultCity, k>>)]

InitMatch ==
    /\ tick = 0
    /\ stored = {}
    /\ db = IdleConn
    /\ nextExt = 1
    /\ out = NoOut
    /\ last = NoOut
    /\ chrome = NoChrome
    /\ tab = NoTab
    /\ par = 1
    /\ \E titles \in Snapshots :
          proc = [p \in Procs |->
                    IF p = Warmup THEN Locals(DefaultCity, "done")
                    ELSE IF p = 1
                    THEN [Locals(DefaultCity, "filter") EXCEPT
                             !.movies = Entries(titles)]
                    ELSE Idle]

\* Lines 226-234 for a query that is not empty.
Filter(p) ==
    /\ proc[p].pc = "filter"
    /\ \E query \in MatchQueries :
          out' = Reply(proc[p].city, proc[p].movies, query, "cache", FALSE,
                       0, 0)
    /\ proc' = [proc EXCEPT ![p] = Idle]
    /\ UNCHANGED <<tick, stored, db, nextExt, par, chrome, tab, last>>

MatchNext == \E p \in Reqs : Filter(p)

SpecMatch == InitMatch /\ [][MatchNext]_vars

\* ---------------------------------------------------------- scrapeMovies
\* scrapeMovies step by step.  In the other specifications a call is one
\* step, ScrapeOk or ScrapeFail, within which its session comes and goes.
InitExtract ==
    /\ tick = 0
    /\ stored = {}
    /\ db = IdleConn
    /\ nextExt = 1
    /\ out = NoOut
    /\ last = NoOut
    /\ par = MaxReqs
    /\ chrome = NoChrome
    /\ tab = NoTab
    /\ \E city \in [Reqs -> Cities] :
          proc = [p \in Procs |->
                    IF p = Warmup THEN Locals(DefaultCity, "done")
                    ELSE Locals(city[p], "scrape")]

\* The sessions a goroutine has alive.
SessionsOf(p) == {s \in chrome.live : s.owner = p}

\* Lines 134-149: the allocator, the browser context and the 60-second
\* timeout are made and their cancels deferred; no browser runs yet.
Enter(p) ==
    /\ proc[p].pc = "scrape"
    /\ chrome.calls < MaxCalls
    /\ chrome' = [chrome EXCEPT !.calls = @ + 1]
    /\ proc' = [proc EXCEPT ![p] = [@ EXCEPT !.pc = "run"]]
    /\ out' = NoOut
    /\ UNCHANGED <<tick, stored, db, nextExt, par, tab, last>>

\* Line 155: the first chromedp.Run on the context starts a browser of its
\* own, or fails to and returns the error.
Launch(p) ==
    /\ proc[p].pc = "run"
    /\ \/ /\ chrome' = [chrome EXCEPT
                           !.launched = @ + 1,
                           !.live = @ \cup {[id |-> chrome.launched + 1,
                                             owner |-> p]}]
          /\ proc' = [proc EXCEPT ![p] = [@ EXCEPT !.pc = "page"]]
       \/ /\ chrome' = chrome
          /\ proc' = [proc EXCEPT ![p] = [@ EXCEPT !.pc = "unwind",
                                                    !.err = TRUE]]
    /\ out' = NoOut
    /\ UNCHANGED <<tick, stored, db, nextExt, par, tab, last>>

\* Lines 155-191: the page is loaded and evaluated and the links converted,
\* or Run returns an error, or the 60 seconds of line 148 are over, Run
\* returns the deadline error and the browser is killed, now or by the
\* deferred cancels.
Page(p) ==
    /\ proc[p].pc = "page"
    /\ \/ /\ \E links \in PageResults(proc[p].city) :
                proc' = [proc EXCEPT ![p] =
                            [@ EXCEPT !.pc = "unwind", !.err = FALSE,
                                      !.movies = linksToMovies(links)]]
          /\ chrome' = chrome
       \/ /\ proc' = [proc EXCEPT ![p] = [@ EXCEPT !.pc = "unwind",
                                                    !.err = TRUE]]
          /\ \/ chrome' = chrome
             \/ chrome' = [chrome EXCEPT !.live = @ \ SessionsOf(p)]
    /\ out' = NoOut
    /\ UNCHANGED <<tick, stored, db, nextExt, par, tab, last>>

\* The deferred cancels are run on the error return only when it returns
\* movies.
UnwindLeaks(p) ==
    /\ proc[p].pc = "unwind"
    /\ chrome' = [chrome EXCEPT
                     !.live = IF proc[p].err THEN @ ELSE @ \ SessionsOf(p)]
    /\ proc' = [proc EXCEPT ![p] = [@ EXCEPT !.pc = "returned"]]
    /\ out' = NoOut
    /\ UNCHANGED <<tick, stored, db, nextExt, par, tab, last>>

\* The return of line 179 or 193: the deferred cancels of lines 149, 146
\* and 143 run, of which the second waits for the browser to stop.
Unwind(p) ==
    /\ proc[p].pc = "unwind"
    /\ chrome' = [chrome EXCEPT !.live = @ \ SessionsOf(p)]
    /\ proc' = [proc EXCEPT ![p] = [@ EXCEPT !.pc = "returned"]]
    /\ out' = NoOut
    /\ UNCHANGED <<tick, stored, db, nextExt, par, tab, last>>

\* The goroutine of a later request of the city comes to call scrapeMovies.
Again(p) ==
    /\ proc[p].pc = "returned"
    /\ chrome.calls < MaxCalls
    /\ proc' = [proc EXCEPT ![p] = Locals(proc[p].city, "scrape")]
    /\ out' = NoOut
    /\ UNCHANGED <<tick, stored, db, nextExt, par, chrome, tab, last>>

\* The steps of a call once it is entered.
CallStep(p) == Launch(p) \/ Page(p) \/ Unwind(p)

ExtractNext ==
    \/ \E p \in Reqs : Enter(p)
    \/ \E p \in Reqs : Launch(p)
    \/ \E p \in Reqs : Page(p)
    \/ \E p \in Reqs : Unwind(p)
    \/ \E p \in Reqs : Again(p)

\* Run returns after 60 seconds at the latest and the deferred calls run
\* at every return: a call that is entered goes on.
SpecExtract ==
    /\ InitExtract
    /\ [][ExtractNext]_vars
    /\ \A p \in Reqs : WF_vars(CallStep(p))

\* ---------------------------------------------------------- the extension
\* The popup and the content script of one Letterboxd film tab.  The script
\* runs one task at a time; between two awaits, or in a timer callback, it
\* is one step.
\* A bookingLink: the href of the first movie, or "NO_MOVIES".
NO_MOVIES == [none |-> TRUE, href |-> <<>>]

Link(href) == [none |-> FALSE, href |-> href]

\* What the API answers for the film in a city when it is screening there.
LinkOf(c) == Link(Anchor(c, 1).href)

\* mutationObserver = null.
NoObserver == [set |-> FALSE, link |-> NO_MOVIES]

\* What the script has pending: a message on its way, a promise to settle
\* or a timer to fire, with what its callback holds.
Task(at, from, n, city, link, el) ==
    [at |-> at, from |-> from, n |-> n, city |-> city, link |-> link,
     el |-> el]

\* An element of class bms-link in the watch div: the link (an anchor), the
\* skeleton or the "Not screening in <city>" placeholder.
Element(id, kind, href, city, by) ==
    [id |-> id, kind |-> kind, href |-> href, city |-> city, by |-> by]

BmsKinds == {"link", "skeleton", "placeholder"}

\* What an element shows.
Face(e) == [kind |-> e.kind, href |-> e.href, city |-> e.city]

NoFace == [kind |-> "none", href |-> <<>>, city |-> ""]

\* The tab as main() leaves it at line 134: the title is found and
\* fetchMovieData has asked for the selected city.  The page has not built
\* its watch section yet.
OpenTab(c) ==
    [open |-> TRUE, storage |-> c, watch |-> FALSE, jw |-> FALSE,
     bms |-> <<>>, observer |-> NoObserver,
     tasks |-> {Task("getcity", "main", 0, "", NO_MOVIES, 0)},
     nextEl |-> 1, changes |-> 0, mutations |-> 0,
     shown |-> NoFace, early |-> FALSE, failed |-> FALSE]

\* watchDiv.querySelector: the place of the first element of the kinds, 0
\* without one.
querySelector(bms, kinds) ==
    LET found == {k \in DOMAIN bms : bms[k].kind \in kinds}
    IN  IF found = {} THEN 0 ELSE CHOOSE k \in found : \A j \in found : k <= j

\* element.remove().
Remove(bms, id) == SelectSeq(bms, LAMBDA e : e.id # id)

\* existingLink = querySelector(".bms-link"); if (existingLink) remove it.
RemoveExisting(bms) ==
    IF querySelector(bms, BmsKinds) = 0 THEN bms
    ELSE Remove(bms, bms[querySelector(bms, BmsKinds)].id)

\* watchDiv.appendChild of a new element.
appendChild(t, kind, href, city, by) ==
    LET e == Element(t.nextEl, kind, href, city, by)
    IN  [t EXCEPT !.bms = Append(@, e),
                  !.nextEl = @ + 1,
                  !.shown = IF kind # "skeleton" /\ by # "observer"
                            THEN Face(e) ELSE @]

\* injectSkeletonLoader, lines 328-341.
injectSkeletonLoader(t, by) ==
    appendChild([t EXCEPT !.bms = RemoveExisting(@)], "skeleton", <<>>, "", by)

\* createAndInsertLink, lines 272-293.
createAndInsertLink(t, link, by) == appendChild(t, "link", link.href, "", by)

\* injectBookingLink, lines 246-264: with animate and an element to fade
\* out the rest is left to a timer that holds the element.
injectBookingLink(t, link, animate, from, n) ==
    LET k == querySelector(t.bms, BmsKinds)
    IN  IF k # 0 /\ animate
        THEN [t EXCEPT !.tasks = @ \cup
                 {Task("fade", from, n, "", link, t.bms[k].id)}]
        ELSE createAndInsertLink([t EXCEPT !.bms = RemoveExisting(@)],
                                 link, from)

\* injectNoMoviesPlaceholder, lines 396-404: the existing element is
\* removed, then the function awaits the selected city.
injectNoMoviesPlaceholder(t, from, n) ==
    [t EXCEPT !.bms = RemoveExisting(@),
              !.tasks = @ \cup {Task("phcity", from, n, "", NO_MOVIES, 0)}]

\* setupContentObserver, lines 444-465.
setupContentObserver(t, link) ==
    [t EXCEPT !.observer = [set |-> TRUE, link |-> link]]

\* The callback of the observer, lines 449-459: a change of the children of
\* the watch div, while it is observed, sets the 100 ms timer.
Observed(t) ==
    IF tab.observer.set /\ (t.bms # tab.bms \/ t.jw # tab.jw)
    THEN [t EXCEPT !.tasks = @ \cup
             {Task("debounce", "observer", 0, "", tab.observer.link, 0)}]
    ELSE t

Without(task) == [tab EXCEPT !.tasks = @ \ {task}]

Backend == <<tick, stored, db, proc, out, nextExt, par, chrome, last>>

\* The page builds the watch div.
PageAddsWatch ==
    /\ tab.open /\ ~tab.watch
    /\ tab' = [tab EXCEPT !.watch = TRUE]
    /\ UNCHANGED Backend

\* The page puts the JustWatch branding into the watch div.
PageAddsBranding ==
    /\ tab.open /\ tab.watch /\ ~tab.jw
    /\ tab' = Observed([tab EXCEPT !.jw = TRUE])
    /\ UNCHANGED Backend

\* The page rebuilds the services of the watch div and the extension's
\* element goes with them.
PageRebuilds ==
    /\ tab.open /\ tab.jw /\ tab.bms # <<>>
    /\ tab.mutations < MaxMutations
    /\ tab' = Observed([tab EXCEPT !.bms = <<>>, !.mutations = @ + 1])
    /\ UNCHANGED Backend

\* handleCityChange and notifyContentScripts, lines 50-88: the city is
\* stored, then the message is sent to the tab.
handleCityChange(c) ==
    /\ tab.open /\ c # tab.storage
    /\ tab.changes < MaxChanges
    /\ tab' = [tab EXCEPT
                  !.storage = c,
                  !.changes = @ + 1,
                  !.tasks = @ \cup {Task("message", "popup", tab.changes + 1,
                                         c, NO_MOVIES, 0)}]
    /\ UNCHANGED Backend

\* The listener of line 470 and refreshBookingLink up to its await, lines
\* 479-498 and 165-166.
refreshBookingLink ==
    /\ tab.open
    /\ \E task \in tab.tasks :
          /\ task.at = "message"
          /\ tab' =
                IF ~tab.watch
                THEN [Without(task) EXCEPT !.early = TRUE]
                ELSE LET t == injectSkeletonLoader(Without(task), "refresh")
                     IN  Observed([t EXCEPT !.tasks = @ \cup
                              {Task("getcity", "refresh", task.n, "",
                                    NO_MOVIES, 0)}])
    /\ UNCHANGED Backend

\* getSelectedCity settles, lines 150-158, and fetchMovieData sends the
\* request for that city, lines 167-172.
getSelectedCity ==
    /\ tab.open
    /\ \E task \in tab.tasks :
          /\ task.at = "getcity"
          /\ tab' = [Without(task) EXCEPT !.tasks = @ \cup
                        {Task("fetch", task.from, task.n, tab.storage,
                              NO_MOVIES, 0)}]
    /\ UNCHANGED Backend

\* The response of the API arrives at main, lines 134-143: a first movie
\* with its href, no movie, or a failure.
mainResponse ==
    /\ tab.open
    /\ \E task \in tab.tasks :
          /\ task.at = "fetch" /\ task.from = "main"
          /\ \/ \E link \in {LinkOf(task.city), NO_MOVIES} :
                   tab' = [Without(task) EXCEPT !.tasks = @ \cup
                              {Task("poll", "main", 0, "", link, 0)}]
             \/ tab' = [Without(task) EXCEPT !.failed = TRUE]
    /\ UNCHANGED Backend

\* The timer of waitForWatchDiv fires, lines 213-237.
waitForWatchDiv ==
    /\ tab.open
    /\ \E task \in tab.tasks :
          /\ task.at = "poll"
          /\ tab' =
                IF ~tab.watch \/ ~tab.jw THEN tab
                ELSE IF task.link = NO_MOVIES
                THEN Observed(injectNoMoviesPlaceholder(Without(task), "main", 0))
                ELSE Observed(setupContentObserver(
                         injectBookingLink(Without(task), task.link, FALSE,
                                           "main", 0),
                         task.link))
    /\ UNCHANGED Backend

\* The response of the API arrives at refreshBookingLink, lines 498-527.
refreshResponse ==
    /\ tab.open
    /\ \E task \in tab.tasks :
          /\ task.at = "fetch" /\ task.from = "refresh"
          /\ LET t == Without(task)
                 k == querySelector(t.bms, {"skeleton"})
             IN  \/ tab' = Observed(injectBookingLink(t, LinkOf(task.city),
                                                     TRUE, "refresh", task.n))
                 \/ tab' = IF k # 0
                           THEN [t EXCEPT !.tasks = @ \cup
                                    {Task("fadeout", "refresh", task.n, "",
                                          NO_MOVIES, t.bms[k].id)}]
                           ELSE Observed(injectNoMoviesPlaceholder(
                                    t, "refresh", task.n))
                 \/ tab' = Observed(
                        [t EXCEPT !.failed = TRUE,
                                  !.bms = IF k # 0 THEN Remove(@, t.bms[k].id)
                                          ELSE @])
    /\ UNCHANGED Backend

\* The timer of injectBookingLink fires, lines 254-257.
fadeToLink ==
    /\ tab.open
    /\ \E task \in tab.tasks :
          /\ task.at = "fade"
          /\ tab' = Observed(createAndInsertLink(
                        [Without(task) EXCEPT !.bms = Remove(@, task.el)],
                        task.link, task.from))
    /\ UNCHANGED Backend

\* The timer of refreshBookingLink fires, lines 508-511.
fadeToPlaceholder ==
    /\ tab.open
    /\ \E task \in tab.tasks :
          /\ task.at = "fadeout"
          /\ tab' = Observed(injectNoMoviesPlaceholder(
                        [Without(task) EXCEPT !.bms = Remove(@, task.el)],
                        task.from, task.n))
    /\ UNCHANGED Backend

\* injectNoMoviesPlaceholder after its await, lines 403-436; called by
\* waitForWatchDiv it is followed by setupContentObserver, line 236.
placeholderCity ==
    /\ tab.open
    /\ \E task \in tab.tasks :
          /\ task.at = "phcity"
          /\ LET t == appendChild(Without(task), "placeholder", <<>>,
                                  tab.storage, task.from)
             IN  tab' = Observed(IF task.from = "main"
                                 THEN setupContentObserver(t, NO_MOVIES)
                                 ELSE t)
    /\ UNCHANGED Backend

\* The timer of the observer fires, lines 450-458.
debounce ==
    /\ tab.open
    /\ \E task \in tab.tasks :
          /\ task.at = "debounce"
          /\ tab' =
                IF querySelector(tab.bms, BmsKinds) # 0 THEN Without(task)
                ELSE IF task.link = NO_MOVIES
                THEN Observed(injectNoMoviesPlaceholder(Without(task),
                                                        "observer", 0))
                ELSE Observed(injectBookingLink(Without(task), task.link,
                                                FALSE, "observer", 0))
    /\ UNCHANGED Backend

InitTab ==
    /\ tick = 0
    /\ stored = {}
    /\ db = IdleConn
    /\ nextExt = 1
    /\ out = NoOut
    /\ last = NoOut
    /\ par = 0
    /\ chrome = NoChrome
    /\ proc = [p \in Procs |->
                 IF p = Warmup THEN Locals(DefaultCity, "done") ELSE Idle]
    /\ \E c \in Cities : tab = OpenTab(c)

\* What the script does of itself, once it is due.
ScriptStep ==
    \/ refreshBookingLink
    \/ getSelectedCity
    \/ mainResponse
    \/ waitForWatchDiv
    \/ refreshResponse
    \/ fadeToLink
    \/ fadeToPlaceholder
    \/ placeholderCity
    \/ debounce

TabNext ==
    \/ PageAddsWatch
    \/ PageAddsBranding
    \/ PageRebuilds
    \/ \E c \in Cities : handleCityChange(c)
    \/ ScriptStep

\* Messages are delivered, promises settle and timers fire.
SpecTab == InitTab /\ [][TabNext]_vars /\ WF_vars(ScriptStep)

TypeOK ==
    /\ tick \in 0..MaxTick
    /\ nextExt \in 1..(MaxExt + 1)
    /\ db.open \in BOOLEAN
    /\ db.tx \in {"I", "T", "E"}
    /\ out.status \in {0, 200, 500}
    /\ last.status \in {0, 200, 500}
    /\ par \in 0..MaxReqs
    /\ \A p \in Procs : proc[p].pc \in {"idle", "read", "scrape", "done", "filter", "run", "page",
                          "unwind", "returned"} \cup SavePcs

\* ------------------------------------------------------------- the claims
MovieSet(list) == {list[k] : k \in DOMAIN list}

RowMovies(rows) == {Movie(r.title, r.href) : r \in rows}

\* Goroutine q leaves its cache lookup in this step; what the lookup
\* returned is then in its locals (no cached movies) or in the response.
ReadStep(q) == proc[q].pc = "read" /\ proc'[q].pc # "read"

ReadMovies(q) ==
    IF proc'[q].pc = "scrape" THEN proc'[q].movies ELSE out'.snapshot

ReadErr(q) == IF proc'[q].pc = "scrape" THEN proc'[q].err ELSE out'.err

\* Request p returns from saveMoviesToDB with an error in this step.
SaveFails(p) ==
    /\ InSave(p)
    /\ proc'[p].pc = "idle"
    /\ out'.status = 200
    /\ out'.via = "unsaved"

\* C1: when a request's saveMoviesToDB returns an error, and no other
\* replace of the same city ran during the call, the rows committed for the
\* city are the rows that were committed when it was called.
C1_FailedReplaceKeepsRows ==
    [][\A p \in Reqs :
          SaveFails(p) /\ ~proc[p].overlap
              => CityRows(stored', proc[p].city) = proc[p].before]_vars

\* Request p has executed its DELETE for city c and not yet its COMMIT.
MidReplace(p, c) == proc[p].city = c /\ proc[p].pc \in {"insert", "commit"}

\* C2: a cache lookup that succeeds while another request is between the
\* DELETE and the COMMIT of its replace of the same city returns the whole
\* prior snapshot (the committed rows inside the window) or the whole new
\* one (all the movies being inserted).
C2_ReadSeesWholeSnapshot ==
    [][\A q \in Reqs : \A p \in Reqs \ {q} :
          ReadStep(q) /\ MidReplace(p, proc[q].city) /\ ~ReadErr(q)
              => LET got == ReadMovies(q)
                     prior == RowMovies(SelectStrict(stored, proc[q].city, Now))
                 IN  /\ Len(got) = Cardinality(MovieSet(got))
                     /\ \/ MovieSet(got) = prior
                        \/ MovieSet(got) = MovieSet(proc[p].movies)]_vars

\* C3: the rows committed for a city are none, or all the entries of one
\* extraction and nothing else.
C3_OneExtractionPerCity ==
    \A c \in Cities : \A r1, r2 \in CityRows(stored, c) :
        /\ r1.ext = r2.ext
        /\ Cardinality(CityRows(stored, c)) = r1.of

\* The previous response, when requests come one at a time, was a 200 for
\* the city of the response just written.
AfterSameCity ==
    /\ out.status = 200
    /\ out.after.status = 200
    /\ out.after.city = out.city

C5_SecondEqualsFirst ==
    /\ AfterSameCity
    /\ out.after.via = "saved"
    /\ out.via = "cache"
    /\ ~out.err
    /\ out.query = <<>>
    /\ out.after.query = <<>>
    /\ out.made - out.after.made < FreshHours
    => out.movies = out.after.movies

\* C6: a cache lookup that succeeds is answered from the cache exactly when
\* rows of the city with now - scraped_at < 24 hours are stored.
C6_ServedIffFresh ==
    [][\A q \in Reqs :
          ReadStep(q) /\ ~ReadErr(q)
              => ((proc'[q].pc = "idle" /\ out'.via = "cache")
                    <=> SelectStrict(stored, proc[q].city, Now) # {})]_vars

\* The characters of pattern occur in str in this order, compared without
\* case.
RECURSIVE IsSubseqFold(_, _)
IsSubseqFold(pattern, str) ==
    IF pattern = <<>> THEN TRUE
    ELSE IF str = <<>> THEN FALSE
    ELSE IF ToLower(Head(pattern)) = ToLower(Head(str))
    THEN IsSubseqFold(Tail(pattern), Tail(str))
    ELSE IsSubseqFold(pattern, Tail(str))

\* The query of a request as the matcher is to see it: entities decoded,
\* non-breaking spaces made spaces, the ends trimmed.
Normal(query) ==
    LET plain == [k \in DOMAIN query |->
                    IF query[k] \in {"&nbsp;", NBSP} THEN " " ELSE query[k]]
        first == {k \in DOMAIN plain : plain[k] # " "}
    IN  IF first = {} THEN <<>>
        ELSE SubSeq(plain, CHOOSE k \in first : \A j \in first : k <= j,
                           CHOOSE k \in first : \A j \in first : k >= j)

\* The body of a 200 response shows the list `from`: all of it without a
\* query, with a query those of its entries whose title has the characters
\* of the query in order.
Shows(resp, from) ==
    /\ resp.status = 200
    /\ resp.count = Len(resp.movies)
    /\ IF resp.query = <<>>
       THEN resp.movies = from
       ELSE /\ Len(resp.movies) = Cardinality(MovieSet(resp.movies))
            /\ MovieSet(resp.movies) =
                  {m \in MovieSet(from) :
                      /\ Normal(resp.query) # <<>>
                      /\ IsSubseqFold(Normal(resp.query), m.title)}

\* C7: a request whose cache lookup returns movies answers 200 with those
\* movies, which are rows the lookup qualified, filtered by the query if
\* any; it goes on to no extraction and the stored rows are unchanged.  A
\* lookup that returns none goes on to the extraction.
C7_CacheHitServesSnapshotOnly ==
    [][\A q \in Reqs :
          ReadStep(q) =>
              IF ReadMovies(q) # <<>>
              THEN /\ proc'[q].pc = "idle"
                   /\ out'.via = "cache"
                   /\ out'.city = proc[q].city
                   /\ MovieSet(out'.snapshot) \subseteq
                         RowMovies(pgSelect(db, stored, Now, proc[q].city).rows)
                   /\ Shows(out', out'.snapshot)
                   /\ stored' = stored
                   /\ nextExt' = nextExt
              ELSE proc'[q].pc = "scrape"]_vars

\* A response from a cache of two entries, with a query that keeps one.
C7_Witness ==
    /\ out.status = 200
    /\ out.via = "cache"
    /\ out.query # <<>>
    /\ Len(out.snapshot) = 2
    /\ Len(out.movies) = 1
    /\ CityRows(stored, out.city) # {}

\* Goroutine p comes back from scrapeMovies in this step.
ScrapeStep(p) == proc[p].pc = "scrape" /\ proc'[p].pc # "scrape"

\* scrapeMovies returned movies, which take the next extraction number.
Extracted == nextExt' = nextExt + 1

\* C8: a request that found no cached movies and whose extraction fails
\* ends there with a 500 response that carries an error and no movies,
\* whatever rows are stored; the extraction is not tried again.
C8_FailedExtractionIs500 ==
    [][\A q \in Reqs :
          ScrapeStep(q) /\ ~Extracted
              => /\ proc'[q].pc = "idle"
                 /\ out'.status = 500
                 /\ DOMAIN out' = {"status", "error", "city", "after"}
                 /\ out'.city = proc[q].city]_vars

\* A 500 response for a city of which only rows older than 24 hours are
\* stored.
C8_Witness ==
    /\ out.status = 500
    /\ CityRows(stored, out.city) # {}
    /\ SelectStrict(stored, out.city, Now) = {}

\* C9: the cache lookup writes nothing, and a goroutine (request or
\* preload) whose extraction fails does not go on to saveMoviesToDB: the
\* failing step leaves the stored rows and the session as they were.
C9_FailedExtractionWritesNothing ==
    [][\A p \in Procs :
          /\ ReadStep(p) => stored' = stored
          /\ ScrapeStep(p) /\ ~Extracted
                => /\ ~InSave(p)'
                   /\ stored' = stored
                   /\ db' = db]_vars

\* A 500 response for a city whose rows, not older than 24 hours, are
\* still stored (the cache lookup had failed).
C9_Witness ==
    /\ out.status = 500
    /\ SelectStrict(stored, out.city, Now) # {}

\* C10: a request that extracted movies answers 200 with exactly those
\* movies, filtered by the query if any, whether saveMoviesToDB returned an
\* error or not; the movies do not change while they are saved.
C10_PersistFailureStill200 ==
    [][\A q \in Reqs :
          /\ InSave(q) /\ InSave(q)' => proc'[q].movies = proc[q].movies
          /\ InSave(q) /\ proc'[q].pc = "idle"
                => /\ out'.status = 200
                   /\ out'.city = proc[q].city
                   /\ out'.snapshot = proc[q].movies
                   /\ out'.via \in {"saved", "unsaved"}
                   /\ Shows(out', proc[q].movies)]_vars

\* A 200 response with one of two extracted entries, kept by the query,
\* after saveMoviesToDB failed.
C10_Witness ==
    /\ out.status = 200
    /\ out.via = "unsaved"
    /\ Len(out.snapshot) = 2
    /\ Len(out.movies) = 1

\* C11: a request whose cache lookup returns an error treats the cache as
\* absent: it goes on to the extraction and writes no response in that
\* step.
C11_ReadErrorGoesToExtraction ==
    [][\A q \in Reqs :
          ReadStep(q) /\ ReadErr(q)
              => /\ proc'[q].pc = "scrape"
                 /\ out' = NoOut]_vars

\* No other goroutine is inside saveMoviesToDB for the city of p.
AloneInSave(p) ==
    \A o \in Procs \ {p} : ~(InSave(o) /\ proc[o].city = proc[p].city)

\* C12: a request whose replace overlapped another replace of the same
\* city answers 200 with exactly the movies it extracted; and when it is
\* the last of them to finish and its COMMIT succeeded, the rows stored for
\* the city are exactly the entries of its extraction.
C12_LastCommitWins ==
    [][\A p \in Reqs :
          InSave(p) /\ proc'[p].pc = "idle" /\ proc[p].overlap
              => /\ out'.status = 200
                 /\ out'.snapshot = proc[p].movies
                 /\ out'.via = "saved" /\ AloneInSave(p)
                       => LET rows == CityRows(stored', proc[p].city)
                          IN  /\ RowMovies(rows) = MovieSet(proc[p].movies)
                              /\ \A r \in rows : r.ext = proc[p].ext]_vars

\* preloadMovies is through with its current city in this step.
LeavesCity ==
    /\ proc[Warmup].pc # "done"
    /\ \/ proc'[Warmup].city # proc[Warmup].city
       \/ proc'[Warmup].pc = "done"

\* What a step of preloadMovies may do.
WarmupRules ==
    LET w == proc[Warmup]
        fresh == SelectStrict(stored, w.city, Now)
        mine == {Row(w.city, w.movies[k], r.scraped_at, Extraction(Warmup)) :
                    k \in DOMAIN w.movies, r \in CityRows(stored', w.city)}
    IN  /\ LeavesCity =>
              IF w.city = PreloadCities[1]
              THEN proc'[Warmup] = Locals(PreloadCities[2], "read")
              ELSE proc'[Warmup].pc = "done"
        /\ ReadStep(Warmup) =>
              /\ stored' = stored
              /\ nextExt' = nextExt
              /\ LeavesCity => fresh # {}
              /\ fresh = {} => proc'[Warmup].pc = "scrape"
              /\ fresh # {} /\ ~LeavesCity => proc'[Warmup].err
        /\ ScrapeStep(Warmup) =>
              /\ stored' = stored
              /\ Extracted => proc'[Warmup].pc = "begin"
              /\ ~Extracted => LeavesCity
        /\ InSave(Warmup) /\ LeavesCity =>
              \/ CityRows(stored', w.city) = w.before
              \/ /\ CityRows(stored', w.city) = mine
                 /\ RowMovies(mine) = MovieSet(w.movies)

\* C13: preloadMovies reaches its end; it takes cuttack, then bhubaneswar,
\* whatever happened to the city before; a city with rows younger than 24
\* hours is left without extraction; a city without is extracted (also
\* after a read error) and, when the extraction succeeds, saved, which
\* leaves the rows of the city replaced by the extracted ones or, when the
\* save fails, as they were.
C13_WarmupVisitsEveryCity ==
    /\ <>Serving
    /\ [][WarmupRules]_vars

\* The loop has ended with nothing stored for cuttack, whose extraction
\* failed, and with the first successful extraction stored for bhubaneswar.
C13_Witness ==
    /\ Serving
    /\ CityRows(stored, "cuttack") = {}
    /\ \E r \in CityRows(stored, "bhubaneswar") : r.ext = 1

\* The request of goroutine q ends in this step.
Ends(q) == proc[q].pc # "idle" /\ proc'[q].pc = "idle"

\* What holds of the responses: one is written exactly when a request
\* ends; it is a 200 or a 500, a 500 exactly when the request ends in a
\* failed extraction; a 200 carries the city of the request, which is the
\* city parameter or "cuttack" without one, the movies and their number.
\* With nullOk the "movies" of the body is null when there is no movie,
\* without it is always an array.
ResponseRules(nullOk) ==
    /\ DefaultQuery(NoParam) = "cuttack"
    /\ \A c \in Cities : DefaultQuery(c) = c
    /\ out' # NoOut <=> \E q \in Reqs : Ends(q)
    /\ \A q \in Reqs :
          /\ proc[q].pc # "idle" /\ ~Ends(q) => proc'[q].city = proc[q].city
          /\ Ends(q) =>
                /\ out'.status \in {200, 500}
                /\ out'.status = 500 <=> ScrapeStep(q) /\ ~Extracted
                /\ out'.status = 200 =>
                      /\ out'.city = proc[q].city
                      /\ out'.body.array = out'.movies
                      /\ out'.count = Len(out'.body.array)
                      /\ IF nullOk THEN out'.body.null <=> out'.count = 0
                         ELSE ~out'.body.null

\* C14 as claimed: every request ends with one response, 200 or 500, 500
\* if and only if the extraction was attempted and failed, and every 200
\* carries the requested city, a movies list and its length as count.
C14_ResponseShape == [][ResponseRules(FALSE)]_vars

\* C14 as amended: the same, but the "movies" of a 200 is null, not a
\* list, when there is no movie to show (count 0).
C14_ResponseShapeOrNull == [][ResponseRules(TRUE)]_vars

\* A 200 response without a city parameter, for cuttack, with no movie.
C14_Witness ==
    /\ out.status = 200
    /\ out.city = DefaultCity
    /\ out.body.null
    /\ out.count = 0

\* The movies request q ends with, when it does not end in a failed
\* extraction: those it extracted, or those its cache lookup returned.
Snapshot(q) == IF InSave(q) THEN proc[q].movies ELSE ReadMovies(q)

\* No title of the list has the characters of the query in order.
MatchesNone(query, movies) ==
    \A k \in DOMAIN movies : ~IsSubseqFold(Normal(query), movies[k].title)

\* C15: a request that does not end in a failed extraction ends with a 200
\* response; its count is 0 and it shows no movie when the extraction
\* returned no movies, or when the query matches none of the movies read
\* or extracted.  The 500 of a failed extraction has no count.
C15_ZeroEntriesIsAnAnswer ==
    [][\A q \in Reqs :
          Ends(q) =>
              IF ScrapeStep(q)
              THEN out'.status = 500 /\ "count" \notin DOMAIN out'
              ELSE /\ out'.status = 200
                   /\ out'.snapshot = Snapshot(q)
                   /\ (\/ Snapshot(q) = <<>>
                       \/ /\ out'.query # <<>>
                          /\ MatchesNone(out'.query, Snapshot(q)))
                         => out'.count = 0 /\ out'.movies = <<>>]_vars

\* A 200 response with count 0 after an extraction that returned a movie
\* the query does not match.
C15_Witness ==
    /\ out.status = 200
    /\ out.via = "saved"
    /\ out.snapshot # <<>>
    /\ out.query # <<>>
    /\ out.count = 0

\* C16: a 200 response to a request without a query shows the movies read
\* or extracted for it, all of them, each once and in their order.
C16_EmptyQueryIsIdentity ==
    [][\A q \in Reqs :
          Ends(q) /\ out'.status = 200 /\ out'.query = <<>>
              => /\ out'.movies = Snapshot(q)
                 /\ out'.body.array = Snapshot(q)
                 /\ out'.count = Len(Snapshot(q))]_vars

\* A response without a query that shows two movies.
C16_Witness ==
    /\ out.status = 200
    /\ out.query = <<>>
    /\ Len(out.movies) = 2
    /\ out.movies[1] # out.movies[2]

\* The movies shown are those of the snapshot whose title has the
\* characters of the normalized query in order, each once.
ShowsSubsequenceMatches ==
    /\ Len(out.movies) = Cardinality(MovieSet(out.movies))
    /\ MovieSet(out.movies) =
          {m \in MovieSet(out.snapshot) :
              IsSubseqFold(Normal(out.query), m.title)}

\* C17: the response to a query that is not empty shows exactly the movies
\* of the snapshot whose title has the characters of the normalized query
\* in order, whatever their case, each once; all of them when the
\* normalized query is empty.
C17_MatchesAreSubsequenceMatches ==
    out.status = 200 /\ out.query # <<>> => ShowsSubsequenceMatches

\* The same for the queries that are not empty once normalized.
C17_NonBlankMatches ==
    out.status = 200 /\ out.query # <<>> /\ Normal(out.query) # <<>>
        => ShowsSubsequenceMatches

\* The score the matcher gives a movie for the query of the response.
ScoreOf(m) == MatchOf(m.title, cleanQuery(out.query)).score

\* The place of a movie in the snapshot of the response.
PlaceOf(m) == CHOOSE k \in DOMAIN out.snapshot : out.snapshot[k] = m

\* C18: the movies shown for a query are in descending order of score,
\* and those of equal score in their order in the snapshot.
C18_DescendingScoreStableTies ==
    out.status = 200 /\ out.query # <<>>
        => \A i, j \in DOMAIN out.movies :
              i < j => \/ ScoreOf(out.movies[i]) > ScoreOf(out.movies[j])
                       \/ /\ ScoreOf(out.movies[i]) = ScoreOf(out.movies[j])
                          /\ PlaceOf(out.movies[i]) < PlaceOf(out.movies[j])

\* The movies shown are in descending order of score.
C18_DescendingScore ==
    out.status = 200 /\ out.query # <<>>
        => \A i, j \in DOMAIN out.movies :
              i < j => ScoreOf(out.movies[i]) >= ScoreOf(out.movies[j])

\* The texts a page can show for a title.
AnchorTexts == {Anchor(DefaultCity, n).text : n \in 0..2}

\* The ways of writing a text in a query: each of its spaces as a space, as
\* a non-breaking space or as the entity.
Spellings(text) ==
    {q \in [DOMAIN text -> {"a", "b", "A", "B", " ", NBSP, "&nbsp;"}] :
        \A k \in DOMAIN text :
            IF text[k] \in {" ", NBSP, "&nbsp;"}
            THEN q[k] \in {" ", NBSP, "&nbsp;"}
            ELSE q[k] = text[k]}

\* cleanQuery makes one string of a text of the page and of every spelling
\* of it.
SpellingsAgree ==
    \A text \in AnchorTexts : \A q \in Spellings(text) :
        /\ cleanQuery(q) = cleanQuery(text)
        /\ cleanQuery(q) = Normal(text)

\* The titles stored, written in the open transaction, held by a goroutine
\* or served.
TitlesAbout ==
    {r.title : r \in stored \cup db.pending}
        \cup UNION {{m.title : m \in MovieSet(proc[p].movies)} : p \in Procs}
        \cup (IF out.status = 200
              THEN {m.title : m \in MovieSet(out.snapshot) \cup MovieSet(out.movies)}
              ELSE {})

\* C19: every title stored, held or served is the normalization of a text
\* of the page (entity decoded, non-breaking spaces made spaces, trimmed)
\* and is left as it is by it; a response to a query shows the movies whose
\* title matches the normalized query, whether they were read or extracted;
\* and a text of the page and any spelling of it in a query, with spaces,
\* non-breaking spaces or entities, normalize to the same string.
C19_SameNormalization ==
    /\ \A t \in TitlesAbout :
          /\ t = Normal(t)
          /\ \E text \in AnchorTexts : t = Normal(text)
    /\ out.status = 200 /\ out.query # <<>>
          => MovieSet(out.movies) =
                {m \in MovieSet(out.snapshot) :
                    /\ Normal(out.query) # <<>>
                    /\ IsSubseqFold(Normal(out.query), m.title)}
    /\ SpellingsAgree

\* A movie whose title was extracted with a non-breaking space, stored,
\* read back and shown for the query "a&nbsp;B".
C19_Witness ==
    /\ out.status = 200
    /\ out.via = "cache"
    /\ out.query = <<"a", "&nbsp;", "B">>
    /\ \E k \in DOMAIN out.movies :
          /\ out.movies[k].title = <<"a", " ", "B">>
          /\ out.movies[k].href = Anchor(out.city, 2).href

\* Goroutine p is inside scrapeMovies, with a browser or about to return.
InCall(p) == proc[p].pc \in {"page", "unwind"}

\* A browser session is alive only while the call that launched it is at
\* work, and a call has one at most.
SessionsConfined ==
    \A s, t \in chrome.live :
        /\ InCall(s.owner)
        /\ (s.id = t.id \/ s.owner = t.owner) => s = t

\* A session that appears is a new one, of a call that had none; a call
\* that returns has no session left and returns movies or an error.
SessionRules ==
    /\ \A s \in chrome'.live \ chrome.live :
          /\ s.id > chrome.launched
          /\ proc[s.owner].pc = "run"
          /\ SessionsOf(s.owner) = {}
    /\ \A p \in Reqs :
          proc[p].pc # "returned" /\ proc'[p].pc = "returned"
              => /\ \A s \in chrome'.live : s.owner # p
                 /\ proc'[p].err => proc'[p].movies = <<>>
                 /\ ~proc'[p].err =>
                       \E links \in PageResults(proc[p].city) :
                           proc'[p].movies = linksToMovies(links)

\* C20: every scrapeMovies call that launches a browser launches one of
\* its own, never one launched before; a call that is entered returns,
\* with movies or with an error; and on every way out, with movies, after a
\* failed run or after the timeout, its browser session is gone when it
\* returns, so that a session is alive only inside the call that made it.
C20_SessionPerCallTornDown ==
    /\ []SessionsConfined
    /\ [][SessionRules]_vars
    /\ \A p \in Reqs : proc[p].pc = "run" ~> proc[p].pc = "returned"

\* A call has returned an error with no session left while the other
\* call's session, the second launched, is alive.
C20_Witness ==
    /\ proc[1].pc = "returned"
    /\ proc[1].err
    /\ chrome.live = {[id |-> 2, owner |-> 2]}

\* Nothing is pending in the tab.
Settled == tab.open /\ tab.tasks = {}

\* The element shown is the one for city c: the link of the film in c or
\* the placeholder that names c.
ShowsCity(c) ==
    /\ Len(tab.bms) = 1
    /\ \/ tab.bms[1].kind = "link" /\ tab.bms[1].href = LinkOf(c).href
       \/ tab.bms[1].kind = "placeholder" /\ tab.bms[1].city = c

\* C21: when the city was changed in the popup, every message found the
\* watch div, no fetch failed and nothing is pending any more, the tab
\* shows the element for the city selected last.
C21_ShowsLastSelectedCity ==
    Settled /\ tab.changes > 0 /\ ~tab.early /\ ~tab.failed
        => ShowsCity(tab.storage)

\* C27: the watch div has at most one element of class bms-link.
C27_AtMostOneBmsLink == tab.open => Len(tab.bms) <= 1

\* The tab is settled on the link of a city that is not the selected one,
\* after two changes made once the first link was shown and observed.
C21_StaleLinkShown ==
    /\ Settled /\ tab.changes = 2 /\ ~tab.early /\ ~tab.failed
    /\ tab.mutations = 0
    /\ Len(tab.bms) = 1
    /\ tab.bms[1].kind = "link"
    /\ tab.bms[1].by = "refresh"
    /\ tab.bms[1].href # LinkOf(tab.storage).href

\* The elements a step puts into the watch div.
Inserted == {tab'.bms[k] : k \in {j \in DOMAIN tab'.bms : tab'.bms[j].id >= tab.nextEl}}

\* C22: a step of the content script that puts a link, a skeleton or a
\* placeholder into the watch section finds the watch div there with the
\* JustWatch branding in it; the timer of waitForWatchDiv, when it does
\* not, changes nothing and stays set.
C22_NoInsertBeforeReady ==
    [][tab.open =>
          /\ Inserted # {} => tab.watch /\ tab.jw
          /\ waitForWatchDiv /\ ~(tab.watch /\ tab.jw) => tab' = tab]_vars

\* C23: what the observer puts back into a watch div left without a
\* bms-link element is what the script displayed last for its latest
\* fetch: the link, with its href, if that was a link, and a placeholder
\* if that was a placeholder.
C23_ObserverRestoresLatest ==
    [][tab.open =>
          \A e \in Inserted :
              e.by = "observer"
                  => /\ e.kind = tab.shown.kind
                     /\ e.kind = "link" => e.href = tab.shown.href]_vars

\* The list has an href twice.
HasDuplicateHref(movies) ==
    \E i, j \in DOMAIN movies : i # j /\ movies[i].href = movies[j].href

\* C24: the stored rows of a city have pairwise distinct hrefs; while a
\* goroutine saves an extraction that has an href twice no row of that
\* extraction is stored; and a list with an href twice is never served
\* from the cache.
C24_DuplicateHrefNeverPersisted ==
    /\ \A r1, r2 \in stored :
          r1.city = r2.city /\ r1.href = r2.href => r1 = r2
    /\ \A p \in Procs :
          InSave(p) /\ HasDuplicateHref(proc[p].movies)
              => \A r \in stored : r.ext # proc[p].ext
    /\ out.status = 200 /\ HasDuplicateHref(out.snapshot)
          => out.via # "cache"

\* The stored rows of a city have one scraped_at.
OneCaptureTime ==
    \A r1, r2 \in stored : r1.city = r2.city => r1.scraped_at = r2.scraped_at

\* C25: the stored rows of a city all have the same scraped_at, and a
\* cache lookup returns none of them or all of them.
C25_SnapshotFreshOrStaleAsAWhole ==
    /\ []OneCaptureTime
    /\ [][\A q \in Procs :
             ReadStep(q) /\ ReadMovies(q) # <<>>
                 => MovieSet(ReadMovies(q)) =
                       RowMovies(CityRows(stored, proc[q].city))]_vars

\* Until preloadMovies has returned no request is being handled and no
\* response has been written.
NoRequestDuringWarmup ==
    ~Serving => /\ \A p \in Reqs : proc[p].pc = "idle"
                /\ out = NoOut

\* C26: requests are handled only once preloadMovies has been through all
\* its cities, and from then on it does nothing more: no handler runs
\* before or beside a read, an extraction or a save of the warm-up.
C26_ServesAfterWarmup ==
    /\ []NoRequestDuringWarmup
    /\ [][Serving => proc'[Warmup] = proc[Warmup]]_vars

\* A request is at its extraction, after a warm-up that stored rows.
C26_Witness ==
    /\ Serving
    /\ \E p \in Reqs : proc[p].pc = "scrape"
    /\ \E r \in stored : r.ext = 1

=============================================================================
